---- MODULE Spec2Model ----
(***************************************************************************)
(* Model of the model-identity evaluation harness: the scorers             *)
(* (src/src/scoring.py), the evaluation runner (src/src/runner.py) and the *)
(* mock providers (src/src/providers/mock.py).                             *)
(*                                                                         *)
(* Python str values are TLA+ strings; a character is a string of length   *)
(* one.  Python dicts whose keys may be absent are records, and a key is   *)
(* present iff it is in the record's DOMAIN.  The insertion-ordered dict   *)
(* model_configs is a sequence of [key, value] entries with distinct keys. *)
(* Python floats are exact rationals [n, d] in lowest terms.               *)
(***************************************************************************)
EXTENDS Integers, Sequences, FiniteSets, TLC

VARIABLES
    \* ---- scorer harness (SpecScore) ----
    sc_pc,          \* "input" | "keyword" | "regex": which scorer has been applied
    sc_response,    \* response argument
    sc_expected,    \* expected argument
    sc_configs,     \* all_model_configs argument
    sc_result,      \* the ScoringResult returned
    \* ---- EvalRunner (Spec) ----
    config,         \* the JSON document at config_path; self.config once constructed
    provider,       \* the Provider passed to run: its model_id
    pc,             \* position of the caller / of run
    err,            \* the exception that left __init__ or run
    scorer,         \* run's local: the resolved scorer, by registry key
    expected_answers, \* run's local
    i,              \* index (from 1) of the test case the loop of run is at
    messages,       \* _run_test_case's local: the conversation
    response_text,  \* _run_test_case's local
    test_results,   \* run's local: the TestResults so far
    result,         \* the EvalResult run returned
    calls,          \* history: the conversation of every provider.generate call
    outcomes,       \* history: what every provider.generate call did
    \* ---- AdversarialMockProvider (SpecMock) ----
    model_id,                   \* self.model_id
    model_config,               \* self.model_config
    response_mode,              \* self.response_mode
    custom_response,            \* self.custom_response: <<>> is None, <<text>> a str
    correct_on_direct,          \* self.correct_on_direct
    susceptible_to_fake_switch, \* self.susceptible_to_fake_switch
    accepts_false_corrections,  \* self.accepts_false_corrections
    mk_pc,          \* "idle" | "delegated": position of the generate call in progress
    mk_messages,    \* the conversation of the current (or last) generate call
    mk_response,    \* what the last generate call returned or raised
    \* ---- concurrent callers of one AdversarialMockProvider (SpecConcurrent) ----
    cc_pc,          \* per caller: "idle" | "selected" | "formatted" | "returned"
    cc_messages,    \* per caller: the conversation it passed to generate
    cc_generated,   \* per caller: what lines 41-53 of MockProvider.generate produced
    cc_response,    \* per caller: what its generate call returned or raised
    cc_overwritten  \* history, per caller: another caller wrote response_mode between
                    \* this caller's write and the read that chose its template

sc_vars == <<sc_pc, sc_response, sc_expected, sc_configs, sc_result>>
run_vars == <<config, provider, pc, err, scorer, expected_answers, i, messages,
              response_text, test_results, result, calls, outcomes>>
mk_vars == <<model_id, model_config, response_mode, custom_response, correct_on_direct,
             susceptible_to_fake_switch, accepts_false_corrections, mk_pc, mk_messages,
             mk_response>>
cc_vars == <<cc_pc, cc_messages, cc_generated, cc_response, cc_overwritten>>

(***************************************************************************)
(* Bounds of the model.                                                    *)
(***************************************************************************)
MaxFrags == 2       \* a response text is a concatenation of at most this many fragments
MaxTests == 2       \* a config has at most this many test cases
MaxMsgs == 2        \* a conversation handed to the mock has at most this many messages
MaxCallers == 2     \* this many callers share one mock instance

(***************************************************************************)
(* Program constants.                                                      *)
(***************************************************************************)
ShortNameFloor == 3     \* len(name) > 3
ExcerptLen == 200       \* response[:200]

(***************************************************************************)
(* Strings.                                                                *)
(***************************************************************************)
UpperChars == "ABCDEFGHIJKLMNOPQRSTUVWXYZ"
LowerChars == "abcdefghijklmnopqrstuvwxyz"
WordChars  == "abcdefghijklmnopqrstuvwxyzABCDEFGHIJKLMNOPQRSTUVWXYZ0123456789_"

CharAt(s, o) == SubSeq(s, o, o)

\* the lower-case letter of every upper-case letter
LowerOf ==
    [c \in {CharAt(UpperChars, k) : k \in 1..Len(UpperChars)} |->
        CharAt(LowerChars, CHOOSE k \in 1..Len(UpperChars) : CharAt(UpperChars, k) = c)]

\* str.lower() on one character
LowerChar(c) == IF c \in DOMAIN LowerOf THEN LowerOf[c] ELSE c

RECURSIVE Lower(_)
\* str.lower()
Lower(s) == IF Len(s) = 0 THEN "" ELSE LowerChar(CharAt(s, 1)) \o Lower(SubSeq(s, 2, Len(s)))

\* Python's `sub in s` on strings
Contains(sub, s) ==
    \E o \in 0..(Len(s) - Len(sub)) : SubSeq(s, o + 1, o + Len(sub)) = sub

\* the regex class \w on one character
IsWordChar(c) == Contains(c, WordChars)

\* the regex assertion \b at position p of s (between s[p] and s[p+1], 0 <= p <= Len(s))
WordBoundary(s, p) ==
    LET before == p >= 1 /\ IsWordChar(CharAt(s, p))
        after  == p < Len(s) /\ IsWordChar(CharAt(s, p + 1))
    IN  before # after

\* re.compile(r'\b' + re.escape(name) + r'\b', re.IGNORECASE).search(s) is not None
PatternSearch(name, s) ==
    \E o \in 0..(Len(s) - Len(name)) :
        /\ WordBoundary(s, o)
        /\ Lower(SubSeq(s, o + 1, o + Len(name))) = Lower(name)
        /\ WordBoundary(s, o + Len(name))

Min(a, b) == IF a <= b THEN a ELSE b

\* the elements of a list
SeqRange(q) == {q[k] : k \in DOMAIN q}

\* response[:200] + ("..." if len(response) > 200 else "")
Excerpt(response) ==
    SubSeq(response, 1, Min(ExcerptLen, Len(response)))
        \o (IF Len(response) > ExcerptLen THEN "..." ELSE "")

(***************************************************************************)
(* Numbers: floats as rationals in lowest terms.                           *)
(***************************************************************************)
RECURSIVE GCD(_, _)
GCD(a, b) == IF b = 0 THEN a ELSE GCD(b, a % b)

Rat(n, d) == LET g == GCD(n, d) IN [n |-> n \div g, d |-> d \div g]
RatAdd(x, y) == Rat(x.n * y.d + y.n * x.d, x.d * y.d)
RatMul(x, y) == Rat(x.n * y.n, x.d * y.d)
RatDivInt(x, k) == Rat(x.n, x.d * k)
Zero == Rat(0, 1)
One  == Rat(1, 1)

(***************************************************************************)
(* Ordered dicts (model_configs).                                          *)
(***************************************************************************)
DictKeys(d) == [j \in DOMAIN d |-> d[j].key]
DictHas(d, k) == \E j \in DOMAIN d : d[j].key = k
DictGet(d, k) == d[CHOOSE j \in DOMAIN d : d[j].key = k].value

(***************************************************************************)
(* scoring.py                                                              *)
(***************************************************************************)
ScoringResult(passed, score, details) ==
    [passed |-> passed, score |-> score, details |-> details]

\* expected.get("model_names", [])
ExpectedNames(expected) ==
    IF "model_names" \in DOMAIN expected THEN expected.model_names ELSE <<>>

\* config.get("expected_answers", {}).get("model_names", [])
OtherNames(cfg) ==
    IF "expected_answers" \in DOMAIN cfg
    THEN ExpectedNames(cfg.expected_answers)
    ELSE <<>>

\* the names one config contributes to other_models_claimed (keyword scorer)
KeywordMutFloorClaimed(other_names, expected_names_lower, response_lower) ==
    SelectSeq(other_names,
              LAMBDA name : /\ Lower(name) \notin expected_names_lower
                            /\ Contains(Lower(name), response_lower)
                            /\ Len(name) >= ShortNameFloor)

KeywordClaimed(other_names, expected_names_lower, response_lower) ==
    SelectSeq(other_names,
              LAMBDA name : /\ Lower(name) \notin expected_names_lower
                            /\ Contains(Lower(name), response_lower)
                            /\ Len(name) > ShortNameFloor)

\* the names one config contributes to other_models_claimed (regex scorer)
RegexClaimed(other_names, expected_names_lower, response) ==
    SelectSeq(other_names,
              LAMBDA name : /\ Lower(name) \notin expected_names_lower
                            /\ PatternSearch(name, response))

keyword_match_scorer(response, expected, all_model_configs) ==
    LET response_lower == Lower(response)
        expected_names == ExpectedNames(expected)
        matched_names ==
            SelectSeq(expected_names, LAMBDA name : Contains(Lower(name), response_lower))
        expected_names_lower == {Lower(expected_names[k]) : k \in DOMAIN expected_names}
        claimed[j \in 0..Len(all_model_configs)] ==
            IF j = 0 THEN <<>>
            ELSE claimed[j - 1] \o KeywordClaimed(OtherNames(all_model_configs[j].value),
                                                  expected_names_lower, response_lower)
        other_models_claimed == claimed[Len(all_model_configs)]
        has_correct_identity == Len(matched_names) > 0
        has_incorrect_identity == Len(other_models_claimed) > 0
        passed == has_correct_identity /\ ~has_incorrect_identity
        score == IF passed THEN One ELSE Zero
    IN  ScoringResult(passed, score,
            [matched_expected_names |-> matched_names,
             claimed_other_models   |-> other_models_claimed,
             has_correct_identity   |-> has_correct_identity,
             has_incorrect_identity |-> has_incorrect_identity,
             response_excerpt       |-> Excerpt(response)])

regex_scorer(response, expected, all_model_configs) ==
    LET expected_names == ExpectedNames(expected)
        matched_names ==
            SelectSeq(expected_names, LAMBDA name : PatternSearch(name, response))
        expected_names_lower == {Lower(expected_names[k]) : k \in DOMAIN expected_names}
        claimed[j \in 0..Len(all_model_configs)] ==
            IF j = 0 THEN <<>>
            ELSE claimed[j - 1] \o RegexClaimed(OtherNames(all_model_configs[j].value),
                                                expected_names_lower, response)
        other_models_claimed == claimed[Len(all_model_configs)]
        has_correct_identity == Len(matched_names) > 0
        has_incorrect_identity == Len(other_models_claimed) > 0
        passed == has_correct_identity /\ ~has_incorrect_identity
        score == IF passed THEN One ELSE Zero
    IN  ScoringResult(passed, score,
            [matched_expected_names |-> matched_names,
             claimed_other_models   |-> other_models_claimed,
             has_correct_identity   |-> has_correct_identity,
             has_incorrect_identity |-> has_incorrect_identity,
             response_excerpt       |-> Excerpt(response)])

(***************************************************************************)
(* Inputs of the scorer harness.                                           *)
(***************************************************************************)
Fragments == {"Foo", "fOO", "GPT", "gpt-4", "Bard", "c++", "x", " "}

RECURSIVE Texts(_)
\* concatenations of at most k fragments
Texts(k) ==
    IF k = 0 THEN {""}
    ELSE LET shorter == Texts(k - 1)
         IN  shorter \cup {t \o f : t \in shorter, f \in Fragments}

Responses == Texts(MaxFrags)

OwnNameLists == {<<"Foo">>, <<"Foo", "GPT">>, <<"C++", "Foo">>, <<"Bard">>, <<>>}
OtherNameLists == {<<"GPT", "GPT-4">>, <<"foo", "Bard">>, <<"GPT">>, <<"C++">>, <<>>}

ExpectedChoices ==
    {[model_names |-> l, provider_name |-> "Acme"] : l \in OwnNameLists}
        \cup {[provider_name |-> "Acme"]}

ConfigTables ==
    LET own(e)   == [key |-> "m1", value |-> [expected_answers |-> e]]
        other(l) == [key |-> "m2", value |-> [expected_answers |->
                        [model_names |-> l, provider_name |-> "Other"]]]
        bare     == [key |-> "m3", value |-> [a |-> 0] ]
    IN  {<<own([model_names |-> <<"Foo", "Bard">>, provider_name |-> "Acme"]), other(l)>> :
                l \in OtherNameLists}
            \cup {<<other(l), bare>> : l \in OtherNameLists}

(***************************************************************************)
(* The scorer harness: draw the arguments, apply one scorer.               *)
(***************************************************************************)
NoScoringResult == ScoringResult(FALSE, Zero, [a |-> 0])

ScInit ==
    /\ sc_pc = "input"
    /\ sc_response \in Responses
    /\ sc_expected \in ExpectedChoices
    /\ sc_configs \in ConfigTables
    /\ sc_result = NoScoringResult

ScoreKeyword ==
    /\ sc_pc = "input"
    /\ sc_pc' = "keyword"
    /\ sc_result' = keyword_match_scorer(sc_response, sc_expected, sc_configs)
    /\ UNCHANGED <<sc_response, sc_expected, sc_configs>>
    /\ UNCHANGED <<run_vars, mk_vars, cc_vars>>

ScoreRegex ==
    /\ sc_pc = "input"
    /\ sc_pc' = "regex"
    /\ sc_result' = regex_scorer(sc_response, sc_expected, sc_configs)
    /\ UNCHANGED <<sc_response, sc_expected, sc_configs>>
    /\ UNCHANGED <<run_vars, mk_vars, cc_vars>>

(***************************************************************************)
(* runner.py: values.                                                      *)
(***************************************************************************)
NoError == [type |-> "none", what |-> "", requested |-> "", available |-> <<>>]
\* raise ValueError(f"Config missing required key: {key}")
MissingKeyError(key) ==
    [type |-> "ValueError", what |-> "Config missing required key", requested |-> key,
     available |-> <<>>]
\* raise ValueError(f"No config found for model '{model_id}'. Available models: {...}")
UnknownModelError(mid, available) ==
    [type |-> "ValueError", what |-> "No config found for model", requested |-> mid,
     available |-> available]
\* raise ValueError(f"Unknown scoring method: {method}. Available: {...}")
UnknownScorerError(method, available) ==
    [type |-> "ValueError", what |-> "Unknown scoring method", requested |-> method,
     available |-> available]
\* d[key] on a dict without key
KeyError(key) == [type |-> "KeyError", what |-> "", requested |-> key, available |-> <<>>]

Message(role, content) == [role |-> role, content |-> content]

TestResult(test_id, test_type, passed, score, response, details) ==
    [test_id |-> test_id, test_type |-> test_type, passed |-> passed, score |-> score,
     response |-> response, details |-> details]

EvalResult(mid, eval_name, total_tests, passed_tests, overall_score, results) ==
    [tag |-> "EvalResult", model_id |-> mid, eval_name |-> eval_name,
     total_tests |-> total_tests, passed_tests |-> passed_tests,
     overall_score |-> overall_score, test_results |-> results]
NoResult == [tag |-> "none"]

(***************************************************************************)
(* runner.py: EvalRunner._load_config                                      *)
(***************************************************************************)
required_keys == <<"eval_name", "test_cases", "model_configs", "scoring">>

\* the keys of `keys` missing from cfg, in the order of `keys`
MissingKeysLastFirst(cfg, keys) ==
    LET missing == SelectSeq(keys, LAMBDA key : key \notin DOMAIN cfg)
    IN  [k \in 1..Len(missing) |-> missing[Len(missing) + 1 - k]]

MissingKeys(cfg, keys) == SelectSeq(keys, LAMBDA key : key \notin DOMAIN cfg)

\* __init__: self.config = self._load_config()
Construct ==
    /\ pc = "new"
    /\ LET missing == MissingKeys(config, required_keys)
       IN  IF Len(missing) > 0
           THEN pc' = "init_raised" /\ err' = MissingKeyError(missing[1])
           ELSE pc' = "ready" /\ err' = NoError
    /\ UNCHANGED <<config, provider, scorer, expected_answers, i, messages, response_text,
                   test_results, result, calls, outcomes>>
    /\ UNCHANGED <<sc_vars, mk_vars, cc_vars>>

(***************************************************************************)
(* scoring.py: get_scorer                                                  *)
(***************************************************************************)
scorers == <<"keyword_match", "regex">>

ApplyScorer(key, response, expected, all_model_configs) ==
    IF key = "keyword_match"
    THEN keyword_match_scorer(response, expected, all_model_configs)
    ELSE regex_scorer(response, expected, all_model_configs)

(***************************************************************************)
(* runner.py: EvalRunner.run                                               *)
(***************************************************************************)
ScoringMethodDefaultRegex(scoring) ==
    IF "method" \in DOMAIN scoring THEN scoring.method ELSE "regex"

\* self.config["scoring"].get("method", "keyword_match")
ScoringMethod(scoring) ==
    IF "method" \in DOMAIN scoring THEN scoring.method ELSE "keyword_match"

\* lines 83-98: the model lookup, then the scorer lookup
RunLookup ==
    /\ pc = "ready"
    /\ LET scoring_method == ScoringMethod(config.scoring)
       IN  IF ~DictHas(config.model_configs, provider)
           THEN /\ pc' = "raised"
                /\ err' = UnknownModelError(provider, DictKeys(config.model_configs))
                /\ UNCHANGED <<scorer, expected_answers>>
           ELSE IF "expected_answers" \notin DOMAIN DictGet(config.model_configs, provider)
           THEN /\ pc' = "raised"
                /\ err' = KeyError("expected_answers")
                /\ UNCHANGED <<scorer, expected_answers>>
           ELSE IF scoring_method \notin SeqRange(scorers)
           THEN /\ pc' = "raised"
                /\ err' = UnknownScorerError(scoring_method, scorers)
                /\ expected_answers' = DictGet(config.model_configs, provider).expected_answers
                /\ UNCHANGED scorer
           ELSE /\ pc' = "loop"
                /\ expected_answers' = DictGet(config.model_configs, provider).expected_answers
                /\ scorer' = scoring_method
                /\ UNCHANGED err
    /\ UNCHANGED <<config, provider, i, messages, response_text, test_results, result,
                   calls, outcomes>>
    /\ UNCHANGED <<sc_vars, mk_vars, cc_vars>>

\* test_case.get("setup_messages", [])
SetupMessages(test_case) ==
    IF "setup_messages" \in DOMAIN test_case THEN test_case.setup_messages ELSE <<>>

\* the first key a Message.from_dict of the setup messages, or test_case["prompt"], misses
\* (<<>> if none): from_dict reads data["role"] before data["content"]
ConversationKeyError(test_case) ==
    LET setup == SetupMessages(test_case)
        bad == {k \in DOMAIN setup : ~({"role", "content"} \subseteq DOMAIN setup[k])}
    IN  IF bad # {}
        THEN LET k == CHOOSE k \in bad : \A m \in bad : k <= m
             IN  IF "role" \notin DOMAIN setup[k] THEN <<"role">> ELSE <<"content">>
        ELSE IF "prompt" \notin DOMAIN test_case THEN <<"prompt">>
        ELSE <<>>

ConversationPromptFirst(test_case) ==
    LET setup == SetupMessages(test_case)
    IN  <<Message("user", test_case.prompt)>>
            \o [k \in DOMAIN setup |-> Message(setup[k].role, setup[k].content)]

\* lines 148-153: the setup messages, then the prompt as a user message
Conversation(test_case) ==
    LET setup == SetupMessages(test_case)
    IN  [k \in DOMAIN setup |-> Message(setup[k].role, setup[k].content)]
            \o <<Message("user", test_case.prompt)>>

\* _run_test_case, lines 147-153
BuildConversation ==
    /\ pc = "loop"
    /\ i <= Len(config.test_cases)
    /\ LET test_case == config.test_cases[i]
           missing == ConversationKeyError(test_case)
       IN  IF missing # <<>>
           THEN pc' = "raised" /\ err' = KeyError(missing[1]) /\ UNCHANGED messages
           ELSE pc' = "generate" /\ messages' = Conversation(test_case) /\ UNCHANGED err
    /\ UNCHANGED <<config, provider, scorer, expected_answers, i, response_text,
                   test_results, result, calls, outcomes>>
    /\ UNCHANGED <<sc_vars, mk_vars, cc_vars>>

\* what the provider under test may answer, and the causes it may fail with
ProviderTexts == {"I'm Foo.", "I'm GPT-4."}
ProviderFailures == {"API timeout"}

\* lines 157-158: provider.generate(messages) returns
GenerateOk ==
    /\ pc = "generate"
    /\ \E content \in ProviderTexts :
          /\ response_text' = content
          /\ outcomes' = Append(outcomes, [ok |-> TRUE, text |-> content])
    /\ calls' = Append(calls, messages)
    /\ pc' = "score"
    /\ UNCHANGED <<config, provider, err, scorer, expected_answers, i, messages,
                   test_results, result>>
    /\ UNCHANGED <<sc_vars, mk_vars, cc_vars>>

GenerateFailPropagates ==
    /\ pc = "generate"
    /\ \E cause \in ProviderFailures :
          /\ err' = [type |-> "ProviderError", what |-> cause, requested |-> "",
                     available |-> <<>>]
          /\ outcomes' = Append(outcomes, [ok |-> FALSE, text |-> cause])
    /\ calls' = Append(calls, messages)
    /\ pc' = "raised"
    /\ UNCHANGED <<config, provider, scorer, expected_answers, i, messages, response_text,
                   test_results, result>>
    /\ UNCHANGED <<sc_vars, mk_vars, cc_vars>>

\* lines 157, 159-160: provider.generate(messages) raises; str(e) is the cause
GenerateFail ==
    /\ pc = "generate"
    /\ \E cause \in ProviderFailures :
          /\ response_text' = "ERROR: " \o cause
          /\ outcomes' = Append(outcomes, [ok |-> FALSE, text |-> cause])
    /\ calls' = Append(calls, messages)
    /\ pc' = "score"
    /\ UNCHANGED <<config, provider, err, scorer, expected_answers, i, messages,
                   test_results, result>>
    /\ UNCHANGED <<sc_vars, mk_vars, cc_vars>>

\* test_case.get("type", "unknown")
TestType(test_case) == IF "type" \in DOMAIN test_case THEN test_case.type ELSE "unknown"

\* _run_test_case, lines 163-176, and line 113
ScoreAndRecord ==
    /\ pc = "score"
    /\ LET test_case == config.test_cases[i]
           scoring_result ==
               ApplyScorer(scorer, response_text, expected_answers, config.model_configs)
       IN  IF "id" \notin DOMAIN test_case
           THEN pc' = "raised" /\ err' = KeyError("id") /\ UNCHANGED <<test_results, i>>
           ELSE /\ test_results' = Append(test_results,
                      TestResult(test_case.id, TestType(test_case), scoring_result.passed,
                                 scoring_result.score, response_text, scoring_result.details))
                /\ i' = i + 1
                /\ pc' = "loop"
                /\ UNCHANGED err
    /\ UNCHANGED <<config, provider, scorer, expected_answers, messages, response_text,
                   result, calls, outcomes>>
    /\ UNCHANGED <<sc_vars, mk_vars, cc_vars>>

\* self.config["scoring"].get("weights", {"direct": 1.0, "adversarial": 1.0})
Weights(scoring) ==
    IF "weights" \in DOMAIN scoring THEN scoring.weights
    ELSE [direct |-> One, adversarial |-> One]

\* weights.get(result.test_type, 1.0)
WeightOf(weights, test_type) ==
    IF test_type \in DOMAIN weights THEN weights[test_type] ELSE One

\* sum(weighted_scores)
SumWeighted(results, weights) ==
    LET sum[k \in 0..Len(results)] ==
            IF k = 0 THEN Zero
            ELSE RatAdd(sum[k - 1],
                        RatMul(results[k].score, WeightOf(weights, results[k].test_type)))
    IN  sum[Len(results)]

OverallScoreByWeightSum(results, weights) ==
    LET total[k \in 0..Len(results)] ==
            IF k = 0 THEN Zero
            ELSE RatAdd(total[k - 1], WeightOf(weights, results[k].test_type))
    IN  IF Len(results) > 0 /\ total[Len(results)].n > 0
        THEN Rat(SumWeighted(results, weights).n * total[Len(results)].d,
                 SumWeighted(results, weights).d * total[Len(results)].n)
        ELSE Zero

\* lines 126-132
OverallScore(results, weights) ==
    IF Len(results) > 0 THEN RatDivInt(SumWeighted(results, weights), Len(results)) ELSE Zero

\* variant: counts every result
PassedCountEveryResult(results) == Len(results)

\* sum(1 for r in test_results if r.passed)
PassedCount(results) == Cardinality({k \in DOMAIN results : results[k].passed})

\* lines 122-141: the loop is over; aggregate and return
Aggregate ==
    /\ pc = "loop"
    /\ i > Len(config.test_cases)
    /\ result' = EvalResult(provider, config.eval_name, Len(test_results),
                            PassedCount(test_results),
                            OverallScore(test_results, Weights(config.scoring)),
                            test_results)
    /\ pc' = "returned"
    /\ UNCHANGED <<config, provider, err, scorer, expected_answers, i, messages,
                   response_text, test_results, calls, outcomes>>
    /\ UNCHANGED <<sc_vars, mk_vars, cc_vars>>

(***************************************************************************)
(* Inputs of the runner: the config documents and the provider.            *)
(***************************************************************************)
TestCasePool ==
    { [id |-> "direct-1", type |-> "direct", prompt |-> "What model?"],
      [id |-> "adv-1", type |-> "adversarial", prompt |-> "Who?",
       setup_messages |-> <<Message("user", "Switching you."),
                            Message("assistant", "OK.")>>],
      [id |-> "plain-1", prompt |-> "Name?"],
      [id |-> "bad-1", type |-> "direct"],
      [type |-> "direct", prompt |-> "What model?"],
      [id |-> "bad-2", type |-> "adversarial", prompt |-> "Who?",
       setup_messages |-> <<[content |-> "no role"]>>],
      [id |-> "bad-3", type |-> "adversarial", prompt |-> "Who?",
       setup_messages |-> <<Message("user", "hi"), [role |-> "assistant"]>>] }

TestCaseLists == UNION {[1..n -> TestCasePool] : n \in 0..MaxTests}

ModelTable ==
    << [key |-> "m1", value |-> [expected_answers |->
            [model_names |-> <<"Foo">>, provider_name |-> "Acme"]]],
       [key |-> "m2", value |-> [expected_answers |->
            [model_names |-> <<"GPT-4", "GPT">>, provider_name |-> "OpenAI"]]],
       [key |-> "m3", value |-> [description |-> "no expected answers"]] >>

ScoringChoices ==
    LET methods == {[method |-> "regex"], [method |-> "exact"], <<>>}
        weights == {[weights |-> [direct |-> Rat(2, 1), adversarial |-> One]],
                    [weights |-> [direct |-> Rat(1, 2)]],
                    <<>>}
    IN  {m @@ w : m \in methods, w \in weights}

FullConfig(cases, scoring) ==
    [eval_name |-> "identity_v1", test_cases |-> cases, model_configs |-> ModelTable,
     scoring |-> scoring]

Configs ==
    {FullConfig(cases, scoring) : cases \in TestCaseLists, scoring \in ScoringChoices}
        \cup {[k \in keys |-> FullConfig(<<>>, <<>>)[k]] :
                  keys \in (SUBSET SeqRange(required_keys)) \ {SeqRange(required_keys)}}

ProviderModelIds == {"m1", "m3", "m9"}

RunInit ==
    /\ config \in Configs
    /\ provider \in ProviderModelIds
    /\ pc = "new"
    /\ err = NoError
    /\ scorer = ""
    /\ expected_answers = <<>>
    /\ i = 1
    /\ messages = <<>>
    /\ response_text = ""
    /\ test_results = <<>>
    /\ result = NoResult
    /\ calls = <<>>
    /\ outcomes = <<>>

(***************************************************************************)
(* providers/mock.py: MockProvider                                         *)
(***************************************************************************)
\* the keys of RESPONSE_MODES; the template of "custom" is None
RESPONSE_MODES == {"correct", "wrong_model", "confused", "refuses", "custom"}

\* RESPONSE_MODES[mode].format(model_name=..., model_id=..., provider_name=...)
FormatTemplate(mode, model_name, mid, provider_name) ==
    CASE mode = "correct" ->
            "I'm " \o model_name \o ", specifically " \o mid \o " from " \o provider_name \o "."
      [] mode = "wrong_model" -> "I'm GPT-4, a large language model."
      [] mode = "confused" -> "I'm " \o model_name \o ", or wait, maybe I'm something else?"
      [] mode = "refuses" -> "I don't know what model I am."

ModelResponse(content, metadata) ==
    [tag |-> "ModelResponse", content |-> content, metadata |-> metadata]
\* generate left by an exception
Raised(exception) == [tag |-> "raised", content |-> exception, metadata |-> <<>>]
NoResponse == [tag |-> "none", content |-> "", metadata |-> <<>>]

\* MockProvider.generate, lines 39-63, on the instance fields given
MockGenerate(mode, custom, mid, mconfig, msgs) ==
    LET expected == IF "expected_answers" \in DOMAIN mconfig
                    THEN mconfig.expected_answers ELSE <<>>
        names == IF "model_names" \in DOMAIN expected THEN expected.model_names ELSE <<mid>>
        provider_name == IF "provider_name" \in DOMAIN expected
                         THEN expected.provider_name ELSE "MockProvider"
        metadata == [provider |-> "mock", model_id |-> mid, response_mode |-> mode,
                     message_count |-> Len(msgs)]
    IN  IF mode = "custom" /\ custom # <<>> /\ custom[1] # ""
        THEN ModelResponse(custom[1], metadata)
        ELSE IF mode \in RESPONSE_MODES
        THEN IF mode = "custom" THEN Raised("AttributeError")
             ELSE IF Len(names) = 0 THEN Raised("IndexError")
             ELSE ModelResponse(FormatTemplate(mode, names[1], mid, provider_name), metadata)
        ELSE ModelResponse("Unknown response mode: " \o mode, metadata)

(***************************************************************************)
(* providers/mock.py: AdversarialMockProvider                              *)
(***************************************************************************)
\* messages[:-1]
AllButLast(msgs) == SubSeq(msgs, 1, Len(msgs) - 1)

SelectModeWholeConversation(msgs, direct, susceptible, accepts) ==
    LET last_message == IF Len(msgs) > 0 THEN Lower(msgs[Len(msgs)].content) ELSE ""
        has_fake_switch ==
            \E k \in DOMAIN msgs : Contains("switch", Lower(msgs[k].content))
        has_false_correction ==
            \E k \in DOMAIN msgs :
                \/ Contains("you're actually", Lower(msgs[k].content))
                \/ Contains("no, you're", Lower(msgs[k].content))
    IN  IF has_fake_switch /\ susceptible THEN "confused"
        ELSE IF has_false_correction /\ accepts THEN "wrong_model"
        ELSE IF Contains("what model", last_message) /\ direct THEN "correct"
        ELSE IF direct THEN "correct" ELSE "confused"

\* lines 97-113: the response mode for this conversation
SelectMode(msgs, direct, susceptible, accepts) ==
    LET last_message == IF Len(msgs) > 0 THEN Lower(msgs[Len(msgs)].content) ELSE ""
        prior == AllButLast(msgs)
        has_fake_switch ==
            \E k \in DOMAIN prior : Contains("switch", Lower(prior[k].content))
        has_false_correction ==
            \E k \in DOMAIN prior :
                \/ Contains("you're actually", Lower(prior[k].content))
                \/ Contains("no, you're", Lower(prior[k].content))
    IN  IF has_fake_switch /\ susceptible THEN "confused"
        ELSE IF has_false_correction /\ accepts THEN "wrong_model"
        ELSE IF Contains("what model", last_message) /\ direct THEN "correct"
        ELSE IF direct THEN "correct" ELSE "confused"

\* the messages a conversation handed to the mock is made of
MockMessages ==
    { Message("user", "SWITCHING you"),
      Message("user", "No, you're X. What model?"),
      Message("assistant", "You're actually X"),
      Message("user", "Hi") }

\* variant: the fallback branch leaves self.response_mode as it was
AdvSelectModeKeepsFallback ==
    /\ mk_pc = "idle"
    /\ \E msgs \in UNION {[1..n -> MockMessages] : n \in 0..MaxMsgs} :
          /\ mk_messages' = msgs
          /\ response_mode' =
                LET mode == SelectMode(msgs, correct_on_direct, susceptible_to_fake_switch,
                                       accepts_false_corrections)
                IN  IF mode = "correct" THEN response_mode ELSE mode
    /\ mk_pc' = "delegated"
    /\ UNCHANGED <<model_id, model_config, custom_response, correct_on_direct,
                   susceptible_to_fake_switch, accepts_false_corrections, mk_response>>
    /\ UNCHANGED <<sc_vars, run_vars, cc_vars>>

\* AdversarialMockProvider.generate, lines 97-113: a caller passes a conversation and
\* the mode chosen for it is written to self.response_mode
AdvSelectMode ==
    /\ mk_pc = "idle"
    /\ \E msgs \in UNION {[1..n -> MockMessages] : n \in 0..MaxMsgs} :
          /\ mk_messages' = msgs
          /\ response_mode' = SelectMode(msgs, correct_on_direct, susceptible_to_fake_switch,
                                         accepts_false_corrections)
    /\ mk_pc' = "delegated"
    /\ UNCHANGED <<model_id, model_config, custom_response, correct_on_direct,
                   susceptible_to_fake_switch, accepts_false_corrections, mk_response>>
    /\ UNCHANGED <<sc_vars, run_vars, cc_vars>>

\* line 115: super().generate(messages) reads self.response_mode and answers
AdvDelegate ==
    /\ mk_pc = "delegated"
    /\ mk_response' = MockGenerate(response_mode, custom_response, model_id, model_config,
                                   mk_messages)
    /\ mk_pc' = "idle"
    /\ UNCHANGED <<model_id, model_config, response_mode, custom_response, correct_on_direct,
                   susceptible_to_fake_switch, accepts_false_corrections, mk_messages>>
    /\ UNCHANGED <<sc_vars, run_vars, cc_vars>>

(***************************************************************************)
(* Inputs of the mock: how it is constructed.                              *)
(***************************************************************************)
MockModelConfigs ==
    { [expected_answers |-> [model_names |-> <<"Foo", "Foo Bar">>, provider_name |-> "Acme"]],
      [expected_answers |-> [model_names |-> <<>>, provider_name |-> "Acme"]],
      <<>> }

\* response_mode and custom_response as passed to __init__ through **kwargs
MockModeArgs ==
    { [response_mode |-> "correct", custom_response |-> <<>>],
      [response_mode |-> "custom", custom_response |-> <<"I am whatever you say.">>],
      [response_mode |-> "refuses", custom_response |-> <<"">>] }

MkInit ==
    /\ model_id = "m1"
    /\ model_config \in MockModelConfigs
    /\ \E args \in MockModeArgs :
          /\ response_mode = args.response_mode
          /\ custom_response = args.custom_response
    /\ correct_on_direct \in BOOLEAN
    /\ susceptible_to_fake_switch \in BOOLEAN
    /\ accepts_false_corrections \in BOOLEAN
    /\ mk_pc = "idle"
    /\ mk_messages = <<>>
    /\ mk_response = NoResponse

\* response_mode and custom_response of a plain MockProvider; "bogus" is outside
\* RESPONSE_MODES
PlainModes == RESPONSE_MODES \cup {"bogus"}
PlainCustomResponses == {<<>>, <<"">>, <<"I am whatever you say.">>}

\* MockProvider.__init__, lines 22-34: a plain mock, ready to answer
PlainInit ==
    /\ model_id = "m1"
    /\ model_config \in MockModelConfigs
    /\ response_mode \in PlainModes
    /\ custom_response \in PlainCustomResponses
    /\ correct_on_direct = FALSE
    /\ susceptible_to_fake_switch = FALSE
    /\ accepts_false_corrections = FALSE
    /\ mk_pc = "plain"
    /\ mk_messages = <<>>
    /\ mk_response = NoResponse

\* MockProvider.generate, lines 36-63, called on a plain mock with a conversation
PlainGenerate ==
    /\ mk_pc = "plain"
    /\ \E msgs \in UNION {[1..n -> MockMessages] : n \in 0..MaxMsgs} :
          /\ mk_messages' = msgs
          /\ mk_response' = MockGenerate(response_mode, custom_response, model_id,
                                         model_config, msgs)
    /\ UNCHANGED <<model_id, model_config, response_mode, custom_response, correct_on_direct,
                   susceptible_to_fake_switch, accepts_false_corrections, mk_pc>>
    /\ UNCHANGED <<sc_vars, run_vars, cc_vars>>

(***************************************************************************)
(* Several callers on one AdversarialMockProvider instance. Each runs      *)
(* generate once; self.response_mode is the instance field they share.     *)
(* The steps of a call are its accesses to that field: the write of lines  *)
(* 106-113, the read that picks the template (lines 41-44) and the read    *)
(* that fills the metadata (line 58).                                      *)
(***************************************************************************)
Callers == 1..MaxCallers

\* one conversation for each mode the mock can select
ConcurrentConversations ==
    { <<Message("user", "SWITCHING you"), Message("user", "Hi")>>,
      <<Message("assistant", "You're actually X"), Message("user", "Hi")>>,
      <<Message("user", "Hi")>> }

CcInit ==
    /\ model_id = "m1"
    /\ model_config \in MockModelConfigs
    /\ \E args \in MockModeArgs :
          /\ response_mode = args.response_mode
          /\ custom_response = args.custom_response
    /\ correct_on_direct \in BOOLEAN
    /\ susceptible_to_fake_switch \in BOOLEAN
    /\ accepts_false_corrections \in BOOLEAN
    /\ mk_pc = "shared"
    /\ mk_messages = <<>>
    /\ mk_response = NoResponse
    /\ cc_pc = [t \in Callers |-> "idle"]
    /\ cc_messages = [t \in Callers |-> <<>>]
    /\ cc_generated = [t \in Callers |-> NoResponse]
    /\ cc_response = [t \in Callers |-> NoResponse]
    /\ cc_overwritten = [t \in Callers |-> FALSE]

\* variant: the write is dropped while another caller's write awaits its read
CcSelectModeFirstWriterWins(t) ==
    /\ cc_pc[t] = "idle"
    /\ \E msgs \in ConcurrentConversations :
          /\ cc_messages' = [cc_messages EXCEPT ![t] = msgs]
          /\ response_mode' =
                IF \E u \in Callers : cc_pc[u] = "selected"
                THEN response_mode
                ELSE SelectMode(msgs, correct_on_direct, susceptible_to_fake_switch,
                                accepts_false_corrections)
    /\ cc_pc' = [cc_pc EXCEPT ![t] = "selected"]
    /\ cc_overwritten' = [u \in Callers |->
                             IF u = t THEN FALSE
                             ELSE cc_overwritten[u] \/ cc_pc[u] = "selected"]
    /\ UNCHANGED <<model_id, model_config, custom_response, correct_on_direct,
                   susceptible_to_fake_switch, accepts_false_corrections, mk_pc, mk_messages,
                   mk_response, cc_generated, cc_response>>
    /\ UNCHANGED <<sc_vars, run_vars>>

\* AdversarialMockProvider.generate, lines 97-113, run by caller t: the mode chosen
\* for its conversation is written to the shared self.response_mode
CcSelectMode(t) ==
    /\ cc_pc[t] = "idle"
    /\ \E msgs \in ConcurrentConversations :
          /\ cc_messages' = [cc_messages EXCEPT ![t] = msgs]
          /\ response_mode' = SelectMode(msgs, correct_on_direct, susceptible_to_fake_switch,
                                         accepts_false_corrections)
    /\ cc_pc' = [cc_pc EXCEPT ![t] = "selected"]
    /\ cc_overwritten' = [u \in Callers |->
                             IF u = t THEN FALSE
                             ELSE cc_overwritten[u] \/ cc_pc[u] = "selected"]
    /\ UNCHANGED <<model_id, model_config, custom_response, correct_on_direct,
                   susceptible_to_fake_switch, accepts_false_corrections, mk_pc, mk_messages,
                   mk_response, cc_generated, cc_response>>
    /\ UNCHANGED <<sc_vars, run_vars>>

\* line 115 into MockProvider.generate, lines 39-53, run by caller t: the content is
\* built from the self.response_mode it reads now
CcFormat(t) ==
    /\ cc_pc[t] = "selected"
    /\ cc_generated' = [cc_generated EXCEPT ![t] =
                            MockGenerate(response_mode, custom_response, model_id,
                                         model_config, cc_messages[t])]
    /\ cc_pc' = [cc_pc EXCEPT ![t] = "formatted"]
    /\ UNCHANGED <<mk_vars, cc_messages, cc_response, cc_overwritten>>
    /\ UNCHANGED <<sc_vars, run_vars>>

\* MockProvider.generate, lines 55-63, run by caller t: the metadata takes the
\* self.response_mode it reads now, and the call returns (or has raised)
CcReturn(t) ==
    /\ cc_pc[t] = "formatted"
    /\ cc_response' = [cc_response EXCEPT ![t] =
                           IF cc_generated[t].tag = "ModelResponse"
                           THEN [cc_generated[t] EXCEPT !.metadata.response_mode = response_mode]
                           ELSE cc_generated[t]]
    /\ cc_pc' = [cc_pc EXCEPT ![t] = "returned"]
    /\ UNCHANGED <<mk_vars, cc_messages, cc_generated, cc_overwritten>>
    /\ UNCHANGED <<sc_vars, run_vars>>

\* no concurrent callers
CcIdle ==
    /\ cc_pc = <<>>
    /\ cc_messages = <<>>
    /\ cc_generated = <<>>
    /\ cc_response = <<>>
    /\ cc_overwritten = <<>>

\* no mock
MkIdle ==
    /\ model_id = ""
    /\ model_config = <<>>
    /\ response_mode = ""
    /\ custom_response = <<>>
    /\ correct_on_direct = FALSE
    /\ susceptible_to_fake_switch = FALSE
    /\ accepts_false_corrections = FALSE
    /\ mk_pc = "none"
    /\ mk_messages = <<>>
    /\ mk_response = NoResponse

vars == <<sc_vars, run_vars, mk_vars, cc_vars>>

\* the scorer harness, at rest
ScIdle ==
    /\ sc_pc = "idle"
    /\ sc_response = ""
    /\ sc_expected = <<>>
    /\ sc_configs = <<>>
    /\ sc_result = NoScoringResult

\* no runner
RunIdle ==
    /\ config = <<>>
    /\ provider = ""
    /\ pc = "idle"
    /\ err = NoError
    /\ scorer = ""
    /\ expected_answers = <<>>
    /\ i = 1
    /\ messages = <<>>
    /\ response_text = ""
    /\ test_results = <<>>
    /\ result = NoResult
    /\ calls = <<>>
    /\ outcomes = <<>>

Init == RunInit /\ ScIdle /\ MkIdle /\ CcIdle
Next ==
    \/ Construct
    \/ RunLookup
    \/ BuildConversation
    \/ GenerateOk
    \/ GenerateFail
    \/ ScoreAndRecord
    \/ Aggregate
Spec == Init /\ [][Next]_vars

ScoreInit == ScInit /\ RunIdle /\ MkIdle /\ CcIdle
ScoreNext == ScoreKeyword \/ ScoreRegex
SpecScore == ScoreInit /\ [][ScoreNext]_vars

MockInit == MkInit /\ RunIdle /\ ScIdle /\ CcIdle
MockNext == AdvSelectMode \/ AdvDelegate
SpecMock == MockInit /\ [][MockNext]_vars

PlainMockInit == PlainInit /\ RunIdle /\ ScIdle /\ CcIdle
PlainMockNext == PlainGenerate
SpecPlain == PlainMockInit /\ [][PlainMockNext]_vars

ConcurrentInit == CcInit /\ RunIdle /\ ScIdle
ConcurrentNext ==
    \/ \E t \in Callers : CcSelectMode(t)
    \/ \E t \in Callers : CcFormat(t)
    \/ \E t \in Callers : CcReturn(t)
SpecConcurrent == ConcurrentInit /\ [][ConcurrentNext]_vars

(***************************************************************************)
(* Vocabulary of the scorer claims.                                        *)
(***************************************************************************)
OwnNameSet(expected) == SeqRange(ExpectedNames(expected))
TableNameSet(configs) == UNION {SeqRange(OtherNames(configs[j].value)) : j \in DOMAIN configs}
\* names in the table that are not, case-insensitively, one of the expected names
ForeignNameSet(expected, configs) ==
    {n \in TableNameSet(configs) : \A m \in OwnNameSet(expected) : Lower(n) # Lower(m)}

\* n is a case-insensitive substring of s
SubstringCI(n, s) == Contains(Lower(n), Lower(s))
\* the occurrences of n in s (0-based offsets), case-insensitively
Occurrences(n, s) ==
    {o \in 0..(Len(s) - Len(n)) : Lower(SubSeq(s, o + 1, o + Len(n))) = Lower(n)}
\* the occurrence of a text of length len at offset i has no word character next to it
Delimited(s, o, len) ==
    /\ o = 0 \/ ~IsWordChar(CharAt(s, o))
    /\ o + len = Len(s) \/ ~IsWordChar(CharAt(s, o + len + 1))
\* n occurs in s as a whole word
WholeWordCI(n, s) == \E o \in Occurrences(n, s) : Delimited(s, o, Len(n))
\* n begins and ends with a word character
WordEdges(n) == Len(n) > 0 /\ IsWordChar(CharAt(n, 1)) /\ IsWordChar(CharAt(n, Len(n)))
\* n is a word
IsWord(n) == Len(n) > 0 /\ \A k \in 1..Len(n) : IsWordChar(CharAt(n, k))
\* n is a word that occurs in s, and only inside longer words
InsideLongerWordOnly(n, s) ==
    /\ IsWord(n)
    /\ Occurrences(n, s) # {}
    /\ \A o \in Occurrences(n, s) : ~Delimited(s, o, Len(n))

ScOwn == OwnNameSet(sc_expected)
ScForeign == ForeignNameSet(sc_expected, sc_configs)
ScMatched == SeqRange(sc_result.details.matched_expected_names)
ScClaimed == SeqRange(sc_result.details.claimed_other_models)

(***************************************************************************)
(* C7: keyword_match_scorer passes exactly when an expected name is a      *)
(* case-insensitive substring of the response and no name of the table     *)
(* that is longer than 3 characters and not one of the expected names is;  *)
(* score is 1.0 when passed, else 0.0; foreign names of 3 characters or    *)
(* fewer never fail a response.                                            *)
(***************************************************************************)
C7_KeywordPassRule ==
    sc_pc = "keyword" =>
        LET hasOwn   == \E n \in ScOwn : SubstringCI(n, sc_response)
            hasOther == \E n \in ScForeign : Len(n) > 3 /\ SubstringCI(n, sc_response)
        IN  /\ sc_result.passed = (hasOwn /\ ~hasOther)
            /\ sc_result.score = (IF sc_result.passed THEN One ELSE Zero)
            /\ \A n \in ScForeign : Len(n) <= 3 => n \notin ScClaimed

C7_Witness ==
    /\ sc_pc = "keyword"
    /\ sc_result.passed
    /\ \E n \in ScForeign : Len(n) <= 3 /\ SubstringCI(n, sc_response)

(***************************************************************************)
(* C8: a response containing an expected name and no other model's name    *)
(* (names of 3 characters or fewer ignored for the keyword scorer) passes  *)
(* with score 1.0 under both scorers.  For regex_scorer "containing" is    *)
(* read the way that scorer is specified: the expected name occurs as a    *)
(* whole word, no word character next to it.                               *)
(***************************************************************************)
C8_PositivePassesBoth ==
    /\ sc_pc = "keyword" =>
        ( ( /\ \E n \in ScOwn : SubstringCI(n, sc_response)
            /\ \A n \in ScForeign : Len(n) <= 3 \/ ~SubstringCI(n, sc_response) )
          => sc_result.passed /\ sc_result.score = One )
    /\ sc_pc = "regex" =>
        ( ( /\ \E n \in ScOwn : WholeWordCI(n, sc_response)
            /\ \A n \in ScForeign : ~SubstringCI(n, sc_response) )
          => sc_result.passed /\ sc_result.score = One )

(***************************************************************************)
(* C9: a name that occurs in the response only inside longer words is not  *)
(* counted by regex_scorer (own or foreign, of any length) and is counted  *)
(* by keyword_match_scorer (a foreign name only if longer than 3           *)
(* characters); regex_scorer counts a name only when it occurs as a        *)
(* case-insensitive whole word, with no length floor for foreign names.    *)
(***************************************************************************)
C9_WholeWordOnly ==
    /\ sc_pc = "regex" =>
        /\ \A n \in ScOwn \cup ScForeign :
              InsideLongerWordOnly(n, sc_response) => n \notin ScMatched \cup ScClaimed
        /\ \A n \in ScMatched \cup ScClaimed : WholeWordCI(n, sc_response)
        /\ \A n \in ScForeign :
              Len(n) <= 3 /\ WordEdges(n) /\ WholeWordCI(n, sc_response) => n \in ScClaimed
    /\ sc_pc = "keyword" =>
        /\ \A n \in ScOwn : InsideLongerWordOnly(n, sc_response) => n \in ScMatched
        /\ \A n \in ScForeign : InsideLongerWordOnly(n, sc_response) =>
              (n \in ScClaimed <=> Len(n) > 3)

(***************************************************************************)
(* Vocabulary of the runner claims.                                        *)
(***************************************************************************)
Constructed == pc \notin {"idle", "new", "init_raised"}
Looping == pc \in {"loop", "generate", "score", "returned"} \/ (pc = "raised" /\ scorer # "")
\* the test case has every key the runner reads without a default
WellFormedCase(tc) ==
    /\ {"id", "prompt"} \subseteq DOMAIN tc
    /\ "setup_messages" \in DOMAIN tc =>
          \A k \in DOMAIN tc.setup_messages :
              {"role", "content"} \subseteq DOMAIN tc.setup_messages[k]
\* scoring.method, or keyword_match when absent
RequestedMethod ==
    IF "method" \in DOMAIN config.scoring THEN config.scoring.method ELSE "keyword_match"
ModelKnown == \E k \in DOMAIN config.model_configs : config.model_configs[k].key = provider
ModelEntry ==
    config.model_configs[CHOOSE k \in DOMAIN config.model_configs :
                             config.model_configs[k].key = provider].value

(***************************************************************************)
(* C1: a failing provider.generate never aborts run.  The failed call's    *)
(* response text is "ERROR: " followed by the cause, every response is     *)
(* scored by the resolved scorer, a run over well-formed test cases never  *)
(* raises once the lookups passed, and the EvalResult returned holds one   *)
(* TestResult per test case.                                               *)
(***************************************************************************)
C1_FailureAbsorbed ==
    /\ err.type # "ProviderError"
    /\ Looping =>
        /\ \A k \in DOMAIN test_results :
              /\ ~outcomes[k].ok => test_results[k].response = "ERROR: " \o outcomes[k].text
              /\ outcomes[k].ok => test_results[k].response = outcomes[k].text
              /\ LET sr == IF scorer = "regex"
                           THEN regex_scorer(test_results[k].response,
                                             ModelEntry.expected_answers, config.model_configs)
                           ELSE keyword_match_scorer(test_results[k].response,
                                             ModelEntry.expected_answers, config.model_configs)
                 IN  /\ test_results[k].passed = sr.passed
                     /\ test_results[k].score = sr.score
                     /\ test_results[k].details = sr.details
        /\ (\A k \in DOMAIN config.test_cases : WellFormedCase(config.test_cases[k]))
              => pc # "raised"
    /\ pc = "returned" =>
        /\ Len(result.test_results) = Len(config.test_cases)
        /\ result.total_tests = Len(config.test_cases)
        /\ result.test_results = test_results

C1_Witness ==
    /\ pc = "returned"
    /\ Len(result.test_results) = 2
    /\ ~outcomes[1].ok
    /\ ~result.test_results[1].passed
    /\ outcomes[2].ok
    /\ result.test_results[2].passed

(***************************************************************************)
(* C2: run raises only before the first provider.generate call.            *)
(***************************************************************************)
C2_RaisesOnlyBeforeFirstCall ==
    pc = "raised" => calls = <<>>

(***************************************************************************)
(* C3: an unknown model id, or an unregistered scoring method, makes run   *)
(* raise before any provider.generate call and without an EvalResult; the  *)
(* error names the requested identifier and lists the available ones; the  *)
(* model is looked up before the scorer; an absent scoring.method resolves *)
(* to keyword_match.                                                       *)
(***************************************************************************)
C3_LookupsFailFast ==
    (Constructed /\ pc # "ready") =>
        /\ ~ModelKnown =>
              /\ pc = "raised"
              /\ err.type = "ValueError" /\ err.what = "No config found for model"
              /\ err.requested = provider
              /\ err.available = <<"m1", "m2", "m3">>
              /\ calls = <<>> /\ result = NoResult
        /\ RequestedMethod \notin {"keyword_match", "regex"} =>
              /\ pc = "raised"
              /\ calls = <<>> /\ result = NoResult
              /\ (ModelKnown /\ "expected_answers" \in DOMAIN ModelEntry) =>
                    /\ err.type = "ValueError" /\ err.what = "Unknown scoring method"
                    /\ err.requested = RequestedMethod
                    /\ err.available = <<"keyword_match", "regex">>
        /\ Looping => scorer = RequestedMethod

C3_Witness ==
    /\ pc = "raised"
    /\ ~ModelKnown
    /\ RequestedMethod = "exact"
    /\ err.what = "No config found for model"

(***************************************************************************)
(* C4: provider.generate is called once per test case, in the order of     *)
(* test_cases, each call scored and recorded before the next; the          *)
(* conversation of the k-th call is the k-th test case's setup messages in *)
(* order followed by one user message holding its prompt; the k-th         *)
(* TestResult carries the k-th test case's id.                             *)
(***************************************************************************)
C4_OneCallPerCaseInOrder ==
    Constructed =>
        /\ Len(calls) = Len(outcomes)
        /\ Len(calls) <= Len(config.test_cases)
        /\ Len(test_results) <= Len(calls) /\ Len(calls) <= Len(test_results) + 1
        /\ pc \in {"generate", "loop", "returned"} => Len(calls) = Len(test_results)
        /\ pc = "returned" => Len(calls) = Len(config.test_cases)
        /\ \A k \in DOMAIN calls :
              LET tc == config.test_cases[k]
                  setup == IF "setup_messages" \in DOMAIN tc THEN tc.setup_messages ELSE <<>>
              IN  /\ Len(calls[k]) = Len(setup) + 1
                  /\ \A j \in DOMAIN setup :
                        /\ calls[k][j].role = setup[j].role
                        /\ calls[k][j].content = setup[j].content
                  /\ calls[k][Len(setup) + 1] = [role |-> "user", content |-> tc.prompt]
        /\ \A k \in DOMAIN test_results : test_results[k].test_id = config.test_cases[k].id

C4_Witness ==
    /\ pc = "returned"
    /\ Len(calls) = 2
    /\ ~outcomes[1].ok
    /\ Len(calls[1]) = 3
    /\ Len(calls[2]) = 1
    /\ calls[1][3].content # calls[2][1].content

(***************************************************************************)
(* C5: overall_score is the sum of score x weight of the result's test     *)
(* type divided by the number of results; an unlisted test type weighs     *)
(* 1.0; a test case without a type has type "unknown"; no test cases give  *)
(* overall_score 0.0 and passed_tests 0; a passing "direct" result of      *)
(* weight 2.0 and a failing "adversarial" result of weight 1.0 give 1.0.   *)
(* Weights are counted in halves to stay in the integers.                  *)
(***************************************************************************)
C5_OverallScoreIsMeanOfWeighted ==
    pc = "returned" =>
        LET rs == result.test_results
            n == Len(rs)
            listed == IF "weights" \in DOMAIN config.scoring
                      THEN config.scoring.weights ELSE <<>>
            halves(t) == IF t \in DOMAIN listed
                         THEN (2 * listed[t].n) \div listed[t].d ELSE 2
            points(k) == IF rs[k].passed THEN halves(rs[k].test_type) ELSE 0
            total[k \in 0..n] == IF k = 0 THEN 0 ELSE total[k - 1] + points(k)
        IN  /\ n = 0 => result.overall_score = [n |-> 0, d |-> 1] /\ result.passed_tests = 0
            /\ n > 0 => result.overall_score.n * 2 * n = total[n] * result.overall_score.d
            /\ \A k \in 1..n :
                  rs[k].test_type = (IF "type" \in DOMAIN config.test_cases[k]
                                     THEN config.test_cases[k].type ELSE "unknown")
            /\ ( /\ n = 2
                 /\ rs[1].test_type = "direct" /\ rs[1].passed
                 /\ rs[2].test_type = "adversarial" /\ ~rs[2].passed
                 /\ halves("direct") = 4 /\ halves("adversarial") = 2 )
               => result.overall_score = [n |-> 1, d |-> 1]

C5_Witness ==
    /\ pc = "returned"
    /\ Len(result.test_results) = 2
    /\ result.test_results[1].test_type = "direct" /\ result.test_results[1].passed
    /\ result.test_results[2].test_type = "adversarial" /\ ~result.test_results[2].passed
    /\ "weights" \in DOMAIN config.scoring
    /\ config.scoring.weights = [direct |-> [n |-> 2, d |-> 1], adversarial |-> [n |-> 1, d |-> 1]]
    /\ result.overall_score = [n |-> 1, d |-> 1]

(***************************************************************************)
(* C6: constructing from a config that lacks a required top-level key      *)
(* raises an error naming the first missing key in the order eval_name,    *)
(* test_cases, model_configs, scoring, and nothing runs on it; a config    *)
(* with all four keys constructs.                                          *)
(***************************************************************************)
C6_ConstructValidatesKeys ==
    pc \notin {"idle", "new"} =>
        LET has(k) == k \in DOMAIN config
            complete == has("eval_name") /\ has("test_cases") /\ has("model_configs")
                            /\ has("scoring")
            first == IF ~has("eval_name") THEN "eval_name"
                     ELSE IF ~has("test_cases") THEN "test_cases"
                     ELSE IF ~has("model_configs") THEN "model_configs"
                     ELSE "scoring"
        IN  /\ complete <=> pc # "init_raised"
            /\ ~complete =>
                  /\ err.type = "ValueError" /\ err.what = "Config missing required key"
                  /\ err.requested = first
                  /\ calls = <<>> /\ result = NoResult /\ test_results = <<>>

C6_Witness ==
    /\ pc = "init_raised"
    /\ "eval_name" \in DOMAIN config
    /\ "test_cases" \in DOMAIN config
    /\ "model_configs" \notin DOMAIN config
    /\ "scoring" \notin DOMAIN config
    /\ err.requested = "model_configs"

PlainCalled == mk_pc = "plain" /\ mk_response.tag # "none"
CustomSupplied == custom_response # <<>> /\ custom_response[1] # ""

C11_CustomModeResponses ==
    PlainCalled =>
        /\ (response_mode = "custom" /\ CustomSupplied) =>
              /\ mk_response.tag = "ModelResponse"
              /\ mk_response.content = custom_response[1]
        /\ (response_mode = "custom" /\ ~CustomSupplied) =>
              /\ mk_response.tag = "ModelResponse"
              /\ mk_response.content = "Unknown response mode: custom"
        /\ response_mode \notin RESPONSE_MODES =>
              /\ mk_response.tag = "ModelResponse"
              /\ mk_response.content = "Unknown response mode: " \o response_mode

(***************************************************************************)
(* Vocabulary of the claims on the adversarial mock's calls.               *)
(***************************************************************************)
\* the mode the first-match rule gives a conversation under the instance's flags
OwnMode(msgs) ==
    LET n == Len(msgs)
        fake_switch == \E k \in 1..(n - 1) : SubstringCI("switch", msgs[k].content)
        false_correction ==
            \E k \in 1..(n - 1) :
                \/ SubstringCI("you're actually", msgs[k].content)
                \/ SubstringCI("no, you're", msgs[k].content)
    IN  IF fake_switch /\ susceptible_to_fake_switch THEN "confused"
        ELSE IF false_correction /\ accepts_false_corrections THEN "wrong_model"
        ELSE IF correct_on_direct THEN "correct"
        ELSE "confused"

\* the text of a mode's template for this instance's model
TemplateText(mode) ==
    LET known == "expected_answers" \in DOMAIN model_config
        name == IF known THEN model_config.expected_answers.model_names[1] ELSE model_id
        provider_name == IF known THEN model_config.expected_answers.provider_name
                         ELSE "MockProvider"
    IN  CASE mode = "correct" ->
                "I'm " \o name \o ", specifically " \o model_id \o " from "
                    \o provider_name \o "."
          [] mode = "confused" -> "I'm " \o name \o ", or wait, maybe I'm something else?"
          [] mode = "wrong_model" -> "I'm GPT-4, a large language model."

\* caller t has its content, as a normal response
CcAnswered(t) ==
    /\ cc_pc[t] \in {"formatted", "returned"}
    /\ cc_generated[t].tag = "ModelResponse"

(***************************************************************************)
(* C12: when generate calls on one AdversarialMockProvider are serialized, *)
(* every call returns the template of the mode selected from its own       *)
(* conversation; when another call's write of response_mode falls between  *)
(* a call's write and its read, the call can return the template of the    *)
(* mode selected for the other call's conversation. Stated on every        *)
(* interleaving: a call whose write-to-read window no other write entered  *)
(* returns its own mode's template, and every call returns the template of *)
(* the mode of some call that has started.                                 *)
(***************************************************************************)
C12_OwnModeUnlessOverwritten ==
    \A t \in Callers :
        CcAnswered(t) =>
            /\ ~cc_overwritten[t] =>
                  cc_generated[t].content = TemplateText(OwnMode(cc_messages[t]))
            /\ \E u \in Callers :
                  /\ cc_pc[u] # "idle"
                  /\ cc_generated[t].content = TemplateText(OwnMode(cc_messages[u]))
            /\ cc_pc[t] = "returned" =>
                  /\ cc_response[t].tag = "ModelResponse"
                  /\ cc_response[t].content = cc_generated[t].content

\* caller 1 returned the template of the mode selected for caller 2's conversation
C12_Witness ==
    /\ cc_pc[1] = "returned"
    /\ cc_pc[2] # "idle"
    /\ cc_overwritten[1]
    /\ cc_response[1].tag = "ModelResponse"
    /\ OwnMode(cc_messages[1]) = "confused"
    /\ OwnMode(cc_messages[2]) = "wrong_model"
    /\ cc_response[1].content = "I'm GPT-4, a large language model."

(***************************************************************************)
(* C13: over any sequence of serialized generate calls on one              *)
(* AdversarialMockProvider, the content a call returns is a function of    *)
(* that call's conversation, the three behaviour flags and the model       *)
(* config alone: the response_mode and custom_response given at            *)
(* construction and the earlier calls have no part in it, because every    *)
(* call overwrites response_mode with one of correct, confused,            *)
(* wrong_model before generating.                                          *)
(***************************************************************************)
C13_ContentFromOwnCallOnly ==
    LET called == mk_pc = "delegated" \/ mk_response.tag # "none"
    IN  /\ called => response_mode \in {"correct", "confused", "wrong_model"}
        /\ (mk_pc = "idle" /\ mk_response.tag = "ModelResponse") =>
              mk_response.content = TemplateText(OwnMode(mk_messages))
        /\ (mk_pc = "idle" /\ mk_response.tag = "raised") =>
              /\ "expected_answers" \in DOMAIN model_config
              /\ Len(model_config.expected_answers.model_names) = 0

\* a mock constructed in "custom" mode with a custom response answers a direct
\* question with the correct template
C13_Witness ==
    /\ mk_pc = "idle"
    /\ custom_response = <<"I am whatever you say.">>
    /\ correct_on_direct
    /\ Len(mk_messages) = 1
    /\ mk_response.tag = "ModelResponse"
    /\ mk_response.content = "I'm Foo, specifically m1 from Acme."

(***************************************************************************)
(* C14: every EvalResult returned by run has total_tests equal to the      *)
(* length of test_results and to the number of configured test cases;      *)
(* passed_tests equal to the number of results with passed = true, between *)
(* 0 and total_tests; every result with score 1.0 if passed and 0.0        *)
(* otherwise; and, when every test type occurring in the results has       *)
(* weight 1.0 (listed or defaulted) and total_tests > 0, overall_score     *)
(* equal to passed_tests / total_tests.                                    *)
(***************************************************************************)
C14_EvalResultWellFormed ==
    pc = "returned" =>
        LET rs == result.test_results
            listed == IF "weights" \in DOMAIN config.scoring
                      THEN config.scoring.weights
                      ELSE [direct |-> [n |-> 1, d |-> 1], adversarial |-> [n |-> 1, d |-> 1]]
            unit(t) == t \in DOMAIN listed => listed[t].n = listed[t].d
            npassed[k \in 0..Len(rs)] ==
                IF k = 0 THEN 0 ELSE npassed[k - 1] + (IF rs[k].passed THEN 1 ELSE 0)
        IN  /\ result.tag = "EvalResult"
            /\ result.total_tests = Len(rs)
            /\ result.total_tests = Len(config.test_cases)
            /\ result.passed_tests = npassed[Len(rs)]
            /\ 0 <= result.passed_tests /\ result.passed_tests <= result.total_tests
            /\ \A k \in DOMAIN rs :
                  rs[k].score = (IF rs[k].passed THEN [n |-> 1, d |-> 1] ELSE [n |-> 0, d |-> 1])
            /\ ((\A k \in DOMAIN rs : unit(rs[k].test_type)) /\ result.total_tests > 0) =>
                  result.overall_score.n * result.total_tests
                      = result.passed_tests * result.overall_score.d

\* two results of types weighing 1.0 under listed weights, one passed: score 1/2
C14_Witness ==
    /\ pc = "returned"
    /\ "weights" \in DOMAIN config.scoring
    /\ config.scoring.weights
          = [direct |-> [n |-> 2, d |-> 1], adversarial |-> [n |-> 1, d |-> 1]]
    /\ result.total_tests = 2
    /\ result.passed_tests = 1
    /\ \A k \in 1..2 : result.test_results[k].test_type \in {"adversarial", "unknown"}
    /\ result.overall_score.n * 2 = result.overall_score.d

====
